---- MODULE Spec2Model ----
(***************************************************************************)
(* The batch execution engine of vm_latest (struct Vm, vm.rs): the facade  *)
(* over the bootloader state, the low-level VM state and the snapshot      *)
(* stack.  The facade's methods are translated from vm.rs; the helpers it  *)
(* calls that live in other files of the crate (the bootloader state, the  *)
(* interpreter run, the history rollback) are modelled from spec.md.       *)
(***************************************************************************)
EXTENDS Naturals, Sequences, FiniteSets, TLC

VARIABLES
    bootloader_state,   \* Vm.bootloader_state
    state,              \* Vm.state (ZkSyncVmState)
    snapshots,          \* Vm.snapshots
    alive,              \* FALSE once a call has panicked
    op,                 \* the last call: its name, its argument, its outcome
    changed,            \* whether the last call changed the VM or bootloader state
    dirty,              \* whether the engine had moved off the checkpoint it resolved
    trail,              \* where the caller stands in a checkpointed attempt
    ckpts,              \* the engine as it was at each unresolved make_snapshot
    ran_upto,           \* how many of the queued transactions were ever processed
    finished,           \* whether finish_batch has ever run the batch to completion
    ret,                \* the value the last call handed back
    memory_before,      \* the image get_bootloader_memory gave right before finish_batch
    pc,                 \* "idle", or the call in progress when its run is taken step by step
    reported,           \* the cycles used as of the last inspect call
    log,                \* the calls made so far, with their arguments
    raw_stream          \* a raw event stream handed to the merge pass

vars == <<bootloader_state, state, snapshots, alive, op, changed, dirty, trail,
          ckpts, ran_upto, finished, ret, memory_before, pc, reported, log,
          raw_stream>>

(* Bounds of the model. *)
MaxTxs == 2
MaxSnapshots == 2
MaxL2Blocks == 1
MaxSnapshotsNarrow == 1

Bytecodes == {"b1"}

Transactions ==
    { [id |-> 1, factory_deps |-> {}],
      [id |-> 2, factory_deps |-> {"b1"}] }

VmExecutionMode == {"OneTx", "Batch"}

Front(s) == IF s = <<>> THEN <<>> ELSE SubSeq(s, 1, Len(s) - 1)

Last(s) == s[Len(s)]

(***************************************************************************)
(* The engine as one value, so that a handler composes the calls it makes. *)
(***************************************************************************)
Vm == [bootloader_state |-> bootloader_state, state |-> state, snapshots |-> snapshots]

(* Vm::new: fresh VM state and bootloader state, no snapshots. *)
new_vm_state ==
    [ state |->
        [ local_state |-> [timestamp |-> 0, monotonic_cycle_counter |-> 0, progress |-> "Idle"],
          event_sink  |-> <<>>,
          precompiles_processor |-> [timestamp_history |-> <<>>],
          storage     |-> {} ],
      bootloader_state |->
        [ txs |-> <<>>, tx_to_execute |-> 0, l2_block |-> 0 ] ]

new ==
    [ bootloader_state |-> new_vm_state.bootloader_state,
      state            |-> new_vm_state.state,
      snapshots        |-> <<>> ]

(***************************************************************************)
(* Helpers of the crate outside vm.rs.                                     *)
(***************************************************************************)
is_bytecode_known(st, b) == \E w \in st.storage : w.bytecode = b

(* The compression artifacts of a pushed transaction: none when compression
   is off, else one per factory dependency not yet known to storage. *)
compress_bytecodes(vm, tx, with_compression) ==
    IF with_compression
    THEN {b \in tx.factory_deps : ~is_bytecode_known(vm.state, b)}
    ELSE {}

push_transaction_with_compression(vm, tx, with_compression) ==
    [vm EXCEPT !.bootloader_state.txs =
        Append(@, [ tx |-> tx,
                    compressed_bytecodes |-> compress_bytecodes(vm, tx, with_compression) ])]

bootloader_start_new_l2_block(bs) == [bs EXCEPT !.l2_block = @ + 1]

get_last_tx_compressed_bytecodes_of(bs) ==
    IF bs.txs = <<>> THEN {} ELSE Last(bs.txs).compressed_bytecodes

has_unpublished_bytecodes(vm) ==
    \E b \in get_last_tx_compressed_bytecodes_of(vm.bootloader_state) :
        ~is_bytecode_known(vm.state, b)

(* A variant of has_pending_tx with a slip in it: the transaction queued
   last is never seen as pending. *)
has_pending_tx_but_last(vm) ==
    vm.bootloader_state.tx_to_execute + 1 < Len(vm.bootloader_state.txs)

has_pending_tx(vm) == vm.bootloader_state.tx_to_execute < Len(vm.bootloader_state.txs)

(* The bootloader processes the next queued transaction: one more cycle
   block, one raw event, one precompile call (the hash of the transaction),
   and the transaction's compressed bytecodes are published or not
   (published: the interpreter's outcome). *)
execute_tx(vm, published) ==
    LET i  == vm.bootloader_state.tx_to_execute + 1
        e  == vm.bootloader_state.txs[i]
        ts == vm.state.local_state.timestamp
    IN  [vm EXCEPT
            !.bootloader_state.tx_to_execute = i,
            !.state.local_state.timestamp = ts + 1,
            !.state.local_state.monotonic_cycle_counter = @ + 1,
            !.state.local_state.progress = "Executing",
            !.state.event_sink = Append(@, [timestamp |-> ts, tx |-> e.tx.id]),
            !.state.precompiles_processor.timestamp_history = Append(@, ts),
            !.state.storage =
                IF published
                THEN @ \cup {[timestamp |-> ts, bytecode |-> b] : b \in e.compressed_bytecodes}
                ELSE @]

RECURSIVE run_queue(_, _)
run_queue(vm, published) ==
    IF has_pending_tx(vm) THEN run_queue(execute_tx(vm, published), published) ELSE vm

(* The batch-closing sequence, up to the bootloader's completion marker. *)
close_batch(vm) ==
    [vm EXCEPT
        !.state.local_state.timestamp = @ + 1,
        !.state.local_state.monotonic_cycle_counter = @ + 1,
        !.state.local_state.progress = "Completed"]

(* inspect_inner: OneTx runs one queued transaction; Batch drains the queue
   and runs the closing sequence; a completed program has nothing to run. *)
inspect_inner(vm, execution_mode, published) ==
    IF vm.state.local_state.progress = "Completed" THEN vm
    ELSE IF execution_mode = "OneTx"
         THEN (IF has_pending_tx(vm) THEN execute_tx(vm, published) ELSE vm)
         ELSE close_batch(run_queue(vm, published))

(* make_snapshot_inner: the local state and the bootloader's snapshot. *)
make_snapshot_inner(vm) ==
    [vm EXCEPT !.snapshots =
        Append(@, [ local_state |-> vm.state.local_state,
                    bootloader_state |->
                        [ tx_to_execute |-> vm.bootloader_state.tx_to_execute,
                          txs_len       |-> Len(vm.bootloader_state.txs),
                          l2_block      |-> vm.bootloader_state.l2_block ] ])]

(* rollback_to_snapshot: the history-recorded oracles drop what was written
   at or after the snapshot's timestamp, the local state is put back, the
   bootloader forgets what was queued after the snapshot. *)
rollback_to_snapshot(vm, snapshot) ==
    LET t == snapshot.local_state.timestamp
        b == snapshot.bootloader_state
    IN  [vm EXCEPT
            !.state.local_state = snapshot.local_state,
            !.state.event_sink  = SelectSeq(@, LAMBDA e : e.timestamp < t),
            !.state.precompiles_processor.timestamp_history =
                SelectSeq(@, LAMBDA h : h < t),
            !.state.storage     = {w \in @ : w.timestamp < t},
            !.bootloader_state  =
                [ txs |-> SubSeq(@.txs, 1, b.txs_len),
                  tx_to_execute |-> b.tx_to_execute,
                  l2_block |-> b.l2_block ]]

(* execute: a run under the default tracer. *)
execute(vm, execution_mode, published) == inspect_inner(vm, execution_mode, published)

(***************************************************************************)
(* What the getters read: the bootloader's memory image and pubdata, the   *)
(* oracles' query interface, the event merge.                              *)
(***************************************************************************)

(* BootloaderState::bootloader_memory: the current serialized program
   memory: every queued transaction with its compression artifacts and
   whether the bootloader has processed it, and the L2-block boundaries. *)
bootloader_memory(bs) ==
    [ txs |-> [i \in 1..Len(bs.txs) |->
                [ tx |-> bs.txs[i].tx.id,
                  compressed_bytecodes |-> bs.txs[i].compressed_bytecodes,
                  processed |-> i <= bs.tx_to_execute ]],
      l2_blocks |-> bs.l2_block ]

(* The pubdata gathered for the outer layer: the bytecodes published and
   the messages (one per raw event) of the batch so far. *)
get_pubdata_information(vm) ==
    [ published_bytecodes |-> {w.bytecode : w \in vm.state.storage},
      l2_to_l1_messages   |-> Len(vm.state.event_sink),
      l2_blocks           |-> vm.bootloader_state.l2_block ]

build_pubdata(pubdata_information, is_final) ==
    [ published_bytecodes |-> pubdata_information.published_bytecodes,
      l2_to_l1_messages   |-> pubdata_information.l2_to_l1_messages,
      l2_blocks           |-> pubdata_information.l2_blocks,
      is_final            |-> is_final ]

(* event_sink.flatten, its raw chronological event stream: one entry per
   raw event, keyed by what emitted it, valued by when it was written. *)
flatten(event_sink) ==
    [i \in 1..Len(event_sink) |->
        [key |-> event_sink[i].tx, value |-> event_sink[i].timestamp]]

(* The merge pass: contiguous entries of the same key collapse into one
   entry that holds the last value written; the order is kept. *)
RECURSIVE merge_events(_)
merge_events(raw_events) ==
    IF raw_events = <<>>
    THEN <<>>
    ELSE LET merged == merge_events(Front(raw_events))
             e      == Last(raw_events)
         IN  IF merged # <<>> /\ Last(merged).key = e.key
             THEN Append(Front(merged), e)
             ELSE Append(merged, e)

(* event_sink.get_log_queries: the number of log queries of the sink. *)
get_log_queries(event_sink) == Len(event_sink)

(* precompiles_processor.get_timestamp_history *)
get_timestamp_history(precompiles_processor) == precompiles_processor.timestamp_history

(* storage.get_final_log_queries: the storage log queries, oldest first. *)
RECURSIVE get_final_log_queries(_)
get_final_log_queries(storage) ==
    IF storage = {}
    THEN <<>>
    ELSE LET w == CHOOSE x \in storage :
                    \A y \in storage :
                        \/ x.timestamp < y.timestamp
                        \/ x.timestamp = y.timestamp /\ x.bytecode = y.bytecode
         IN  <<w>> \o get_final_log_queries(storage \ {w})

(* get_used_contracts: the hashes of the bytecodes in use. *)
get_used_contracts(vm) ==
    {w.bytecode : w \in vm.state.storage} \cup
    UNION {vm.bootloader_state.txs[i].tx.factory_deps :
              i \in 1..vm.bootloader_state.tx_to_execute}

(* record_vm_memory_metrics_inner: the sizes of the engine's structures. *)
record_vm_memory_metrics_inner(vm) ==
    [ event_sink_inner  |-> Len(vm.state.event_sink),
      storage_inner     |-> Cardinality(vm.state.storage),
      precompile_inner  |-> Len(vm.state.precompiles_processor.timestamp_history) ]

(* The ExecutionResultAndLogs of one run: what the run itself consumed and
   emitted. *)
execution_result(before, after) ==
    [ result      |-> "Success",
      cycles_used |-> after.state.local_state.monotonic_cycle_counter
                        - before.state.local_state.monotonic_cycle_counter,
      logs        |-> SubSeq(after.state.event_sink,
                             Len(before.state.event_sink) + 1,
                             Len(after.state.event_sink)) ]

(***************************************************************************)
(* The methods of vm.rs.  Each yields the engine after the call and the    *)
(* call's outcome.                                                         *)
(***************************************************************************)
Returned(vm, result) == [vm |-> vm, result |-> result]

Panicked(vm) == [vm |-> vm, result |-> "panic"]

(* A call that hands a value back. *)
Answered(vm, value) == [vm |-> vm, result |-> "Ok", value |-> value]

(* A variant of push_transaction with a slip in it: the transaction goes to
   the front of the queue. *)
push_transaction_in_front(vm, tx) ==
    Returned([vm EXCEPT !.bootloader_state.txs =
                <<[ tx |-> tx,
                    compressed_bytecodes |-> compress_bytecodes(vm, tx, TRUE) ]>> \o @],
             "Ok")

push_transaction(vm, tx) ==
    Returned(push_transaction_with_compression(vm, tx, TRUE), "Ok")

inspect(vm, execution_mode, published) ==
    Returned(inspect_inner(vm, execution_mode, published), "Ok")

(* A variant of start_new_l2_block with a slip in it: the block is started
   on the bootloader state of the engine in hand (state shared between
   engine instances) and not on the one of the engine called. *)
start_new_l2_block_on_shared_state(vm) ==
    Returned([vm EXCEPT !.bootloader_state = bootloader_start_new_l2_block(bootloader_state)],
             "Ok")

start_new_l2_block(vm) ==
    Returned([vm EXCEPT !.bootloader_state = bootloader_start_new_l2_block(@)], "Ok")

get_bootloader_memory(vm) == Answered(vm, bootloader_memory(vm.bootloader_state))

(* A variant of get_last_tx_compressed_bytecodes with a slip in it: the
   artifacts are taken out of the bootloader state, not copied. *)
get_last_tx_compressed_bytecodes_taking(vm) ==
    Answered(
        IF vm.bootloader_state.txs = <<>>
        THEN vm
        ELSE [vm EXCEPT !.bootloader_state.txs[Len(vm.bootloader_state.txs)]
                            .compressed_bytecodes = {}],
        get_last_tx_compressed_bytecodes_of(vm.bootloader_state))

get_last_tx_compressed_bytecodes(vm) ==
    Answered(vm, get_last_tx_compressed_bytecodes_of(vm.bootloader_state))

(* A variant of get_current_execution_state with a slip in it: the
   precompile term is left out of the sum. *)
get_current_execution_state_unmerged(vm) ==
    LET raw_events == flatten(vm.state.event_sink)
        events     == raw_events
        total_log_queries ==
            get_log_queries(vm.state.event_sink)
            + Len(get_timestamp_history(vm.state.precompiles_processor))
            + Len(get_final_log_queries(vm.state.storage))
    IN  Answered(vm,
            [ events              |-> events,
              storage_log_queries |-> get_final_log_queries(vm.state.storage),
              used_contract_hashes |-> get_used_contracts(vm),
              total_log_queries   |-> total_log_queries,
              cycles_used         |-> vm.state.local_state.monotonic_cycle_counter ])

get_current_execution_state_without_precompiles(vm) ==
    LET raw_events == flatten(vm.state.event_sink)
        events     == merge_events(raw_events)
        total_log_queries ==
            get_log_queries(vm.state.event_sink)
            + Len(get_final_log_queries(vm.state.storage))
    IN  Answered(vm,
            [ events              |-> events,
              storage_log_queries |-> get_final_log_queries(vm.state.storage),
              used_contract_hashes |-> get_used_contracts(vm),
              total_log_queries   |-> total_log_queries,
              cycles_used         |-> vm.state.local_state.monotonic_cycle_counter ])

get_current_execution_state(vm) ==
    LET raw_events == flatten(vm.state.event_sink)
        events     == merge_events(raw_events)
        total_log_queries ==
            get_log_queries(vm.state.event_sink)
            + Len(get_timestamp_history(vm.state.precompiles_processor))
            + Len(get_final_log_queries(vm.state.storage))
    IN  Answered(vm,
            [ events              |-> events,
              storage_log_queries |-> get_final_log_queries(vm.state.storage),
              used_contract_hashes |-> get_used_contracts(vm),
              total_log_queries   |-> total_log_queries,
              cycles_used         |-> vm.state.local_state.monotonic_cycle_counter ])

record_vm_memory_metrics(vm) == Answered(vm, record_vm_memory_metrics_inner(vm))

(* Variants of inspect_transaction_with_bytecode_compression with a slip in
   them: the failure hands back the engine as it was before the call; the
   transaction is pushed with compression whatever the caller asked for. *)
inspect_transaction_restoring_on_failure(vm, tx, with_compression, published) ==
    LET pushed == push_transaction_with_compression(vm, tx, with_compression)
        ran    == inspect_inner(pushed, "OneTx", published)
    IN  IF has_unpublished_bytecodes(ran)
        THEN Returned(vm, "BytecodeCompressionFailed")
        ELSE Returned(ran, "Ok")

inspect_transaction_always_compressing(vm, tx, with_compression, published) ==
    LET pushed == push_transaction_with_compression(vm, tx, TRUE)
        ran    == inspect_inner(pushed, "OneTx", published)
    IN  IF has_unpublished_bytecodes(ran)
        THEN Returned(ran, "BytecodeCompressionFailed")
        ELSE Returned(ran, "Ok")

inspect_transaction_with_bytecode_compression(vm, tx, with_compression, published) ==
    LET pushed == push_transaction_with_compression(vm, tx, with_compression)
        ran    == inspect_inner(pushed, "OneTx", published)
    IN  IF has_unpublished_bytecodes(ran)
        THEN Returned(ran, "BytecodeCompressionFailed")
        ELSE Returned(ran, "Ok")

(* A variant of finish_batch with a slip in it: the batch is run and closed
   whether or not the program has already reached its completion marker. *)
finish_batch_reentering(vm, published) ==
    Returned(close_batch(run_queue(vm, published)), "Ok")

(* Variants of finish_batch with a slip in them: the execution state and
   the memory image are taken before the batch is run; the memory image is
   the one of a freshly constructed bootloader; the snapshots are dropped. *)
finish_batch_extracting_first(vm, published) ==
    LET execution_state   == get_current_execution_state(vm).value
        final_memory      == get_bootloader_memory(vm).value
        ran               == execute(vm, "Batch", published)
        result            == execution_result(vm, ran)
    IN  Answered(ran,
            [ block_tip_execution_result |-> result,
              final_execution_state      |-> execution_state,
              final_bootloader_memory    |-> final_memory,
              pubdata_input |-> build_pubdata(get_pubdata_information(ran), FALSE) ])

finish_batch_with_initial_memory(vm, published) ==
    LET ran               == execute(vm, "Batch", published)
        result            == execution_result(vm, ran)
        execution_state   == get_current_execution_state(ran).value
        final_memory      == bootloader_memory(new.bootloader_state)
    IN  Answered(ran,
            [ block_tip_execution_result |-> result,
              final_execution_state      |-> execution_state,
              final_bootloader_memory    |-> final_memory,
              pubdata_input |-> build_pubdata(get_pubdata_information(ran), FALSE) ])

finish_batch_discarding_snapshots(vm, published) ==
    LET ran               == [execute(vm, "Batch", published) EXCEPT !.snapshots = <<>>]
        result            == execution_result(vm, ran)
        execution_state   == get_current_execution_state(ran).value
        final_memory      == get_bootloader_memory(ran).value
    IN  Answered(ran,
            [ block_tip_execution_result |-> result,
              final_execution_state      |-> execution_state,
              final_bootloader_memory    |-> final_memory,
              pubdata_input |-> build_pubdata(get_pubdata_information(ran), FALSE) ])

finish_batch(vm, published) ==
    LET ran               == execute(vm, "Batch", published)
        result            == execution_result(vm, ran)
        execution_state   == get_current_execution_state(ran).value
        final_memory == get_bootloader_memory(ran).value
    IN  Answered(ran,
            [ block_tip_execution_result |-> result,
              final_execution_state      |-> execution_state,
              final_bootloader_memory    |-> final_memory,
              pubdata_input |-> build_pubdata(get_pubdata_information(ran), FALSE) ])

make_snapshot(vm) == Returned(make_snapshot_inner(vm), "Ok")

(* Variants of rollback_to_the_latest_snapshot with a slip in them: the
   snapshot is popped and never applied; the oldest snapshot is taken
   instead of the latest; the latest is applied and left on the stack. *)
rollback_without_restoring(vm) ==
    IF vm.snapshots = <<>>
    THEN Panicked(vm)
    ELSE Returned([vm EXCEPT !.snapshots = Front(@)], "Ok")

rollback_to_the_oldest_snapshot(vm) ==
    IF vm.snapshots = <<>>
    THEN Panicked(vm)
    ELSE Returned(rollback_to_snapshot([vm EXCEPT !.snapshots = Tail(@)],
                                       Head(vm.snapshots)), "Ok")

rollback_keeping_the_snapshot(vm) ==
    IF vm.snapshots = <<>>
    THEN Panicked(vm)
    ELSE Returned(rollback_to_snapshot(vm, Last(vm.snapshots)), "Ok")

rollback_to_the_latest_snapshot(vm) ==
    IF vm.snapshots = <<>>
    THEN Panicked(vm)
    ELSE Returned(rollback_to_snapshot([vm EXCEPT !.snapshots = Front(@)],
                                       Last(vm.snapshots)), "Ok")

(* Variants of pop_snapshot_no_rollback with a slip in them: the result of
   pop() is dropped unchecked; the popped snapshot is applied; the latest
   snapshot is looked at and left on the stack. *)
pop_snapshot_unchecked(vm) == Returned([vm EXCEPT !.snapshots = Front(@)], "Ok")

pop_snapshot_with_rollback(vm) ==
    IF vm.snapshots = <<>>
    THEN Panicked(vm)
    ELSE Returned(rollback_to_snapshot([vm EXCEPT !.snapshots = Front(@)],
                                       Last(vm.snapshots)), "Ok")

peek_snapshot_no_rollback(vm) ==
    IF vm.snapshots = <<>>
    THEN Panicked(vm)
    ELSE Returned(vm, "Ok")

pop_snapshot_no_rollback(vm) ==
    IF vm.snapshots = <<>>
    THEN Panicked(vm)
    ELSE Returned([vm EXCEPT !.snapshots = Front(@)], "Ok")

(***************************************************************************)
(* The state machine: one action per call of the interface.  vm.rs guards  *)
(* none of its methods; a call is left out only where spec.md makes it a   *)
(* precondition violation with no defined outcome: queueing after the      *)
(* batch has been completed, and a OneTx run with nothing queued.  After a *)
(* panic the engine is gone.                                               *)
(***************************************************************************)
(* What is on record of a call that hands no value back. *)
NoValue == [none |-> TRUE]

Init ==
    /\ bootloader_state = new.bootloader_state
    /\ state = new.state
    /\ snapshots = new.snapshots
    /\ alive = TRUE
    /\ op = [name |-> "new", with_compression |-> FALSE, result |-> "Ok"]
    /\ changed = FALSE
    /\ dirty = FALSE
    /\ trail = "other"
    /\ ckpts = <<>>
    /\ ran_upto = 0
    /\ finished = FALSE
    /\ ret = NoValue
    /\ memory_before = NoValue
    /\ pc = "idle"
    /\ reported = 0
    /\ log = <<>>
    /\ raw_stream = <<>>

Completed == state.local_state.progress = "Completed"

(* The caller's place in the pattern "take a checkpoint, try, then commit or
   revert": "checkpointed" right after make_snapshot, "failed" when the one
   call since was a transaction inspection that reported the compression
   failure, "discarded" and "reverted" when the checkpoint was resolved at
   that point, "other" anywhere else. *)
Trail(name, result) ==
    CASE result = "panic" -> "other"
      [] name = "make_snapshot" -> "checkpointed"
      [] /\ name = "inspect_transaction_with_bytecode_compression"
         /\ result = "BytecodeCompressionFailed"
         /\ trail = "checkpointed" -> "failed"
      [] name = "pop_snapshot_no_rollback" /\ trail = "checkpointed" -> "discarded"
      [] name = "rollback_to_the_latest_snapshot" /\ trail = "failed" -> "reverted"
      [] OTHER -> "other"

(* Whether the engine has moved away from the latest unresolved checkpoint. *)
Dirty ==
    /\ ckpts # <<>>
    /\ \/ state # Last(ckpts).state
       \/ bootloader_state # Last(ckpts).bootloader_state

(* A call returns (or panics): the engine after it, and the record of the
   call: its name, whether it asked for compression, its outcome. *)
Finish(name, with_compression, r) ==
    /\ bootloader_state' = r.vm.bootloader_state
    /\ state' = r.vm.state
    /\ snapshots' = r.vm.snapshots
    /\ alive' = (r.result # "panic")
    /\ op' = [name |-> name, with_compression |-> with_compression, result |-> r.result]

PushTransaction ==
    /\ alive /\ ~Completed
    /\ Len(bootloader_state.txs) < MaxTxs
    /\ \E tx \in Transactions : Finish("push_transaction", TRUE, push_transaction(Vm, tx))
    /\ UNCHANGED ckpts

Inspect ==
    /\ alive
    /\ \E execution_mode \in VmExecutionMode, published \in BOOLEAN :
        /\ execution_mode = "OneTx" => (has_pending_tx(Vm) /\ ~Completed)
        /\ LET r == inspect(Vm, execution_mode, published)
           IN  Finish("inspect", FALSE, r)
    /\ UNCHANGED ckpts

StartNewL2Block ==
    /\ alive /\ ~Completed
    /\ bootloader_state.l2_block < MaxL2Blocks
    /\ Finish("start_new_l2_block", FALSE, start_new_l2_block(Vm))
    /\ UNCHANGED ckpts

InspectTransactionWithBytecodeCompression ==
    /\ alive /\ ~Completed
    /\ Len(bootloader_state.txs) < MaxTxs
    /\ \E tx \in Transactions, with_compression \in BOOLEAN, published \in BOOLEAN :
        LET r == inspect_transaction_with_bytecode_compression(
                     Vm, tx, with_compression, published)
        IN  Finish("inspect_transaction_with_bytecode_compression", with_compression, r)
    /\ UNCHANGED ckpts

FinishBatch ==
    /\ alive
    /\ \E published \in BOOLEAN :
        LET r == finish_batch(Vm, published)
        IN  Finish("finish_batch", FALSE, r)
    /\ UNCHANGED ckpts

MakeSnapshot ==
    /\ alive
    /\ Len(snapshots) < MaxSnapshots
    /\ Finish("make_snapshot", FALSE, make_snapshot(Vm))
    /\ ckpts' = Append(ckpts, Vm)

RollbackToTheLatestSnapshot ==
    /\ alive
    /\ LET r == rollback_to_the_latest_snapshot(Vm)
       IN  /\ Finish("rollback_to_the_latest_snapshot", FALSE, r)
           /\ ckpts' = IF r.result = "Ok" THEN Front(ckpts) ELSE ckpts

PopSnapshotNoRollback ==
    /\ alive
    /\ LET r == pop_snapshot_no_rollback(Vm)
       IN  /\ Finish("pop_snapshot_no_rollback", FALSE, r)
           /\ ckpts' = IF r.result = "Ok" THEN Front(ckpts) ELSE ckpts

(* The introspection calls.  get_current_execution_state is for use after
   the batch has been run only (vm.rs:84-85); before that its outcome is not
   defined and the call is left out. *)
GetBootloaderMemory ==
    /\ alive
    /\ Finish("get_bootloader_memory", FALSE, get_bootloader_memory(Vm))
    /\ UNCHANGED ckpts

GetLastTxCompressedBytecodes ==
    /\ alive
    /\ Finish("get_last_tx_compressed_bytecodes", FALSE, get_last_tx_compressed_bytecodes(Vm))
    /\ UNCHANGED ckpts

GetCurrentExecutionState ==
    /\ alive /\ Completed
    /\ Finish("get_current_execution_state", FALSE, get_current_execution_state(Vm))
    /\ UNCHANGED ckpts

RecordVmMemoryMetrics ==
    /\ alive
    /\ Finish("record_vm_memory_metrics", FALSE, record_vm_memory_metrics(Vm))
    /\ UNCHANGED ckpts

Min(a, b) == IF a < b THEN a ELSE b

Max(a, b) == IF a < b THEN b ELSE a

(* The engine with the effect of each call noted: whether the call changed
   the VM state or the bootloader state, whether a call that resolves a
   checkpoint found the engine moved since that checkpoint, and the caller's
   place in a checkpointed attempt. *)
CallNoted ==
    /\ changed' = (state' # state \/ bootloader_state' # bootloader_state)
    /\ dirty' = (op'.name \in {"rollback_to_the_latest_snapshot",
                               "pop_snapshot_no_rollback"} /\ Dirty)
    /\ trail' = Trail(op'.name, op'.result)
    /\ UNCHANGED <<ran_upto, finished, ret, memory_before, pc, reported, log, raw_stream>>

Next ==
    \/ PushTransaction /\ CallNoted
    \/ Inspect /\ CallNoted
    \/ StartNewL2Block /\ CallNoted
    \/ InspectTransactionWithBytecodeCompression /\ CallNoted
    \/ FinishBatch /\ CallNoted
    \/ MakeSnapshot /\ CallNoted
    \/ RollbackToTheLatestSnapshot /\ CallNoted
    \/ PopSnapshotNoRollback /\ CallNoted

Spec == Init /\ [][Next]_vars

(* The same engine with its transaction runs put on record, whatever a
   later rollback undoes: of the transactions still queued, the first
   ran_upto have been processed at some point (a rollback that drops queued
   transactions drops them from the record too). *)
RunsRecorded ==
    /\ ran_upto' = Max(Min(ran_upto, Len(bootloader_state'.txs)),
                       bootloader_state'.tx_to_execute)
    /\ UNCHANGED <<changed, dirty, trail, finished, ret, memory_before, pc, reported, log,
                   raw_stream>>

NextRunsRecorded ==
    \/ PushTransaction /\ RunsRecorded
    \/ Inspect /\ RunsRecorded
    \/ StartNewL2Block /\ RunsRecorded
    \/ InspectTransactionWithBytecodeCompression /\ RunsRecorded
    \/ FinishBatch /\ RunsRecorded
    \/ MakeSnapshot /\ RunsRecorded
    \/ RollbackToTheLatestSnapshot /\ RunsRecorded
    \/ PopSnapshotNoRollback /\ RunsRecorded

SpecRunsRecorded == Init /\ [][NextRunsRecorded]_vars

(* The same engine with its finalization put on record, whatever a later
   rollback undoes: finished tells whether finish_batch has run the batch to
   its completion marker at some point. *)
FinishRecorded ==
    /\ finished' = \/ finished
                   \/ /\ op'.name = "finish_batch"
                      /\ state.local_state.progress # "Completed"
                      /\ state'.local_state.progress = "Completed"
    /\ UNCHANGED <<changed, dirty, trail, ran_upto, ret, memory_before, pc, reported, log,
                   raw_stream>>

NextFinishRecorded ==
    \/ PushTransaction /\ FinishRecorded
    \/ Inspect /\ FinishRecorded
    \/ StartNewL2Block /\ FinishRecorded
    \/ InspectTransactionWithBytecodeCompression /\ FinishRecorded
    \/ FinishBatch /\ FinishRecorded
    \/ MakeSnapshot /\ FinishRecorded
    \/ RollbackToTheLatestSnapshot /\ FinishRecorded
    \/ PopSnapshotNoRollback /\ FinishRecorded

SpecFinishRecorded == Init /\ [][NextFinishRecorded]_vars

(* The engine with its introspection calls, and with the value each call
   hands back put on record: the getters' values and the FinishedL1Batch of
   finish_batch, and for a finish_batch called right after
   get_bootloader_memory the image that call gave.  The checkpoint stack is
   kept to MaxSnapshotsNarrow, as in every specification that records more
   than Spec does. *)
Introspected ==
    /\ Len(snapshots') <= MaxSnapshotsNarrow
    /\ memory_before' =
          IF op.name = "get_bootloader_memory" /\ op'.name = "finish_batch"
          THEN ret ELSE NoValue
    /\ ret' \in
        CASE op'.name = "get_bootloader_memory" ->
                {get_bootloader_memory(Vm).value}
          [] op'.name = "get_last_tx_compressed_bytecodes" ->
                {get_last_tx_compressed_bytecodes(Vm).value}
          [] op'.name = "get_current_execution_state" ->
                {get_current_execution_state(Vm).value}
          [] op'.name = "record_vm_memory_metrics" ->
                {record_vm_memory_metrics(Vm).value}
          [] op'.name = "finish_batch" ->
                {finish_batch(Vm, published).value :
                    published \in {p \in BOOLEAN : finish_batch(Vm, p).vm = Vm'}}
          [] OTHER -> {NoValue}
    /\ UNCHANGED <<changed, dirty, trail, ran_upto, finished, pc, reported, log, raw_stream>>

NextIntrospected ==
    \/ PushTransaction /\ Introspected
    \/ Inspect /\ Introspected
    \/ StartNewL2Block /\ Introspected
    \/ InspectTransactionWithBytecodeCompression /\ Introspected
    \/ FinishBatch /\ Introspected
    \/ MakeSnapshot /\ Introspected
    \/ RollbackToTheLatestSnapshot /\ Introspected
    \/ PopSnapshotNoRollback /\ Introspected
    \/ GetBootloaderMemory /\ Introspected
    \/ GetLastTxCompressedBytecodes /\ Introspected
    \/ GetCurrentExecutionState /\ Introspected
    \/ RecordVmMemoryMetrics /\ Introspected

SpecIntrospected == Init /\ [][NextIntrospected]_vars

(***************************************************************************)
(* The checkpoint protocol.                                                *)
(* The engine with the Batch run of finish_batch taken one bootloader step
   at a time: the call begins, the bootloader processes the pending
   transactions one by one, runs the closing sequence, and the call returns
   with what finish_batch extracts from the completed engine.  Other calls
   are made between such calls only: the engine is single-threaded.  The
   checkpoint calls are left out: the run reads neither the snapshot stack
   nor anything a rollback or a discard could bring about that the calls
   kept here do not (a rollback puts the engine back to a state it was in,
   a discard leaves it as it is). *)
Aside == UNCHANGED <<changed, dirty, trail, ran_upto, finished, ret, memory_before,
                     reported, log, raw_stream>>

CalledWhileIdle ==
    /\ pc = "idle" /\ pc' = "idle"
    /\ Aside

BeginFinishBatch ==
    /\ alive /\ pc = "idle"
    /\ pc' = "finish_batch"
    /\ UNCHANGED <<bootloader_state, state, snapshots, alive, op, ckpts>>
    /\ Aside

RunNextTransaction ==
    /\ pc = "finish_batch" /\ ~Completed /\ has_pending_tx(Vm)
    /\ \E published \in BOOLEAN :
        LET ran == execute_tx(Vm, published)
        IN  /\ bootloader_state' = ran.bootloader_state
            /\ state' = ran.state
    /\ UNCHANGED <<snapshots, alive, op, ckpts, pc>>
    /\ Aside

RunClosingSequence ==
    /\ pc = "finish_batch" /\ ~Completed /\ ~has_pending_tx(Vm)
    /\ state' = close_batch(Vm).state
    /\ UNCHANGED <<bootloader_state, snapshots, alive, op, ckpts, pc>>
    /\ Aside

ReturnFromFinishBatch ==
    /\ pc = "finish_batch" /\ Completed
    /\ pc' = "idle"
    /\ Finish("finish_batch", FALSE, finish_batch(Vm, FALSE))
    /\ UNCHANGED ckpts
    /\ Aside

NextBatchRun ==
    \/ PushTransaction /\ CalledWhileIdle
    \/ Inspect /\ CalledWhileIdle
    \/ StartNewL2Block /\ CalledWhileIdle
    \/ InspectTransactionWithBytecodeCompression /\ CalledWhileIdle
    \/ BeginFinishBatch
    \/ RunNextTransaction
    \/ RunClosingSequence
    \/ ReturnFromFinishBatch

(* The run is synchronous and never waits: a step of it that can be taken
   is taken. *)
SpecBatchRun ==
    /\ Init /\ [][NextBatchRun]_vars
    /\ WF_vars(RunNextTransaction)
    /\ WF_vars(RunClosingSequence)
    /\ WF_vars(ReturnFromFinishBatch)

(***************************************************************************)
(* The same engine with the cycles used put on record at every inspect     *)
(* call: reported is the monotonic cycle counter as the last inspect call  *)
(* left it (what cycles_used reads, vm.rs line 116), whatever a later      *)
(* rollback undoes.                                                        *)
(***************************************************************************)
InspectCalls == {"inspect", "inspect_transaction_with_bytecode_compression"}

CyclesUsed == state.local_state.monotonic_cycle_counter

CyclesRecorded ==
    /\ Len(snapshots') <= MaxSnapshotsNarrow
    /\ reported' = IF op'.name \in InspectCalls
                   THEN state'.local_state.monotonic_cycle_counter
                   ELSE reported
    /\ UNCHANGED <<changed, dirty, trail, ran_upto, finished, ret, memory_before, pc, log,
                   raw_stream>>

NextCyclesRecorded ==
    \/ PushTransaction /\ CyclesRecorded
    \/ Inspect /\ CyclesRecorded
    \/ StartNewL2Block /\ CyclesRecorded
    \/ InspectTransactionWithBytecodeCompression /\ CyclesRecorded
    \/ FinishBatch /\ CyclesRecorded
    \/ MakeSnapshot /\ CyclesRecorded
    \/ RollbackToTheLatestSnapshot /\ CyclesRecorded
    \/ PopSnapshotNoRollback /\ CyclesRecorded

SpecCyclesRecorded == Init /\ [][NextCyclesRecorded]_vars

(***************************************************************************)
(* The same engine with its calls put on record, arguments included (for   *)
(* a run, the interpreter's outcome is part of what the call is given:     *)
(* it is determined by the transactions, the environments and the          *)
(* storage, which are the same for both engines).  Re-running the record   *)
(* against a freshly constructed engine gives the second engine.           *)
(***************************************************************************)
MaxCalls == 3

CallsNamed(name) ==
    CASE name = "push_transaction" ->
            {[name |-> name, tx |-> tx] : tx \in Transactions}
      [] name = "inspect" ->
            {[name |-> name, execution_mode |-> m, published |-> p] :
                m \in VmExecutionMode, p \in BOOLEAN}
      [] name = "inspect_transaction_with_bytecode_compression" ->
            {[name |-> name, tx |-> tx, with_compression |-> w, published |-> p] :
                tx \in Transactions, w \in BOOLEAN, p \in BOOLEAN}
      [] name = "finish_batch" ->
            {[name |-> name, published |-> p] : p \in BOOLEAN}
      [] OTHER -> {[name |-> name]}

Apply(vm, call) ==
    CASE call.name = "push_transaction" -> push_transaction(vm, call.tx)
      [] call.name = "inspect" -> inspect(vm, call.execution_mode, call.published)
      [] call.name = "start_new_l2_block" -> start_new_l2_block(vm)
      [] call.name = "inspect_transaction_with_bytecode_compression" ->
            inspect_transaction_with_bytecode_compression(
                vm, call.tx, call.with_compression, call.published)
      [] call.name = "finish_batch" -> finish_batch(vm, call.published)
      [] call.name = "make_snapshot" -> make_snapshot(vm)
      [] call.name = "rollback_to_the_latest_snapshot" -> rollback_to_the_latest_snapshot(vm)
      [] call.name = "pop_snapshot_no_rollback" -> pop_snapshot_no_rollback(vm)

(* The engine that a freshly constructed one becomes when the calls are
   made on it in order. *)
RECURSIVE Replay(_)
Replay(calls) ==
    IF calls = <<>>
    THEN new
    ELSE Apply(Replay(Front(calls)), Last(calls)).vm

CallsRecorded ==
    /\ Len(log) < MaxCalls
    /\ log' = Append(log,
                CHOOSE call \in CallsNamed(op'.name) :
                    /\ Apply(Vm, call).vm = Vm'
                    /\ Apply(Vm, call).result = op'.result)
    /\ UNCHANGED <<changed, dirty, trail, ran_upto, finished, ret, memory_before, pc,
                   reported, raw_stream>>

NextReplayed ==
    \/ PushTransaction /\ CallsRecorded
    \/ Inspect /\ CallsRecorded
    \/ StartNewL2Block /\ CallsRecorded
    \/ InspectTransactionWithBytecodeCompression /\ CallsRecorded
    \/ FinishBatch /\ CallsRecorded
    \/ MakeSnapshot /\ CallsRecorded
    \/ RollbackToTheLatestSnapshot /\ CallsRecorded
    \/ PopSnapshotNoRollback /\ CallsRecorded

SpecReplayed == Init /\ [][NextReplayed]_vars

(***************************************************************************)
(* The event extraction on its own.  The event sink receives raw entries   *)
(* in any order the contracts emit them; the extraction of                 *)
(* get_current_execution_state (flatten, then merge_events) is applied to  *)
(* what the sink holds.  A raw entry is a key and a value.                 *)
(***************************************************************************)
MaxRawEvents == 3

EventKeys == {1, 2}

EventValues == {0, 1}

OutsideTheSink ==
    UNCHANGED <<bootloader_state, state, snapshots, alive, op, changed, dirty, trail,
                ckpts, ran_upto, finished, memory_before, pc, reported, log>>

(* The events field of the extraction of an engine whose sink holds the
   given entries. *)
extracted_events(event_sink) ==
    get_current_execution_state([Vm EXCEPT !.state.event_sink = event_sink]).value.events

EmitRawEvent ==
    /\ Len(raw_stream) < MaxRawEvents
    /\ \E k \in EventKeys, v \in EventValues :
          raw_stream' = Append(raw_stream, [timestamp |-> v, tx |-> k])
    /\ ret' = NoValue
    /\ OutsideTheSink

ExtractEvents ==
    /\ ret = NoValue
    /\ ret' = [events |-> extracted_events(raw_stream)]
    /\ UNCHANGED raw_stream
    /\ OutsideTheSink

NextMerge ==
    \/ EmitRawEvent
    \/ ExtractEvents

SpecMerge == Init /\ [][NextMerge]_vars

(***************************************************************************)
RolledBack(o) == o.name = "rollback_to_the_latest_snapshot" /\ o.result = "Ok"

Discarded(o) == o.name = "pop_snapshot_no_rollback" /\ o.result = "Ok"

(* The engine is, after the step, what it was when the latest unresolved
   checkpoint was taken: VM state, bootloader state and checkpoint stack. *)
BackAtLatestCheckpoint ==
    /\ ckpts # <<>>
    /\ state' = Last(ckpts).state
    /\ bootloader_state' = Last(ckpts).bootloader_state
    /\ snapshots' = Last(ckpts).snapshots

(* C1. Rollback fidelity: whatever was pushed, started or run since
   make_snapshot was called in a state s, a rollback_to_the_latest_snapshot
   that returns leaves the VM state and the bootloader state as they were in
   s, and the snapshot stack as it was in s. *)
C1_RollbackFidelity == [][RolledBack(op') => BackAtLatestCheckpoint]_vars

(* A rollback has returned that undid changes made since its checkpoint. *)
C1_Witness == RolledBack(op) /\ dirty /\ changed

(* What make_snapshot keeps of an engine c. *)
CaptureOf(c) ==
    [ local_state |-> c.state.local_state,
      bootloader_state |->
        [ tx_to_execute |-> c.bootloader_state.tx_to_execute,
          txs_len       |-> Len(c.bootloader_state.txs),
          l2_block      |-> c.bootloader_state.l2_block ] ]

(* The stack holds, bottom to top, the captures of the unresolved
   checkpoints in the order they were taken. *)
StackInOrderTaken ==
    /\ Len(snapshots) = Len(ckpts)
    /\ \A i \in 1..Len(ckpts) :
        /\ i <= Len(snapshots) => snapshots[i] = CaptureOf(ckpts[i])
        /\ Len(ckpts[i].snapshots) = i - 1

Resolvers == {"rollback_to_the_latest_snapshot", "pop_snapshot_no_rollback"}

(* C2. LIFO discipline: the stack holds the unresolved checkpoints in the
   order taken; a rollback or a discard that returns removes the most
   recently taken one and no other; a rollback puts the engine back to the
   point of that checkpoint, so that after c1 and c2 were taken the first
   rollback restores c2's point and the second c1's; a rollback or discard
   with no unresolved checkpoint left panics. *)
C2_LifoDiscipline ==
    /\ []StackInOrderTaken
    /\ [][(RolledBack(op') \/ Discarded(op')) =>
            (snapshots # <<>> /\ snapshots' = Front(snapshots))]_vars
    /\ [][RolledBack(op') =>
            /\ ckpts # <<>>
            /\ state' = Last(ckpts).state
            /\ bootloader_state' = Last(ckpts).bootloader_state]_vars
    /\ [][(op'.name \in Resolvers /\ ckpts = <<>>) => op'.result = "panic"]_vars

(* With c1 and c2 unresolved a rollback has restored c2's point, which is
   not c1's point, and c1 is still on the stack. *)
C2_Witness ==
    /\ RolledBack(op) /\ changed
    /\ Len(snapshots) = 1 /\ Len(ckpts) = 1
    /\ \/ state # ckpts[1].state
       \/ bootloader_state # ckpts[1].bootloader_state

(* C3. rollback_to_the_latest_snapshot and pop_snapshot_no_rollback panic
   when called with an empty snapshot stack, and with a non-empty stack they
   return normally; neither ever returns an error value. *)
C3_PanicOnEmptyStack ==
    [][op'.name \in Resolvers =>
        /\ op'.result \in {"Ok", "panic"}
        /\ op'.result = "panic" <=> snapshots = <<>>
        /\ alive' <=> snapshots # <<>>]_vars

(* A rollback called on the engine as constructed has panicked. *)
C3_Witness ==
    /\ op.name = "rollback_to_the_latest_snapshot" /\ op.result = "panic" /\ ~alive
    /\ state = new.state /\ bootloader_state = new.bootloader_state /\ snapshots = <<>>

(* C4. pop_snapshot_no_rollback on a non-empty stack removes the top
   snapshot and nothing else: the VM state, the bootloader state and the
   snapshots below the top are as before the call. *)
C4_DiscardKeepsState ==
    [][Discarded(op') =>
        /\ state' = state
        /\ bootloader_state' = bootloader_state
        /\ snapshots # <<>>
        /\ snapshots' = SubSeq(snapshots, 1, Len(snapshots) - 1)]_vars

(* A discard has returned while the engine differed from the checkpoint it
   dropped (the changes stay), with an older checkpoint still on the stack. *)
C4_Witness == Discarded(op) /\ dirty /\ ~changed /\ snapshots # <<>>

(* C5. make_snapshot followed at once by pop_snapshot_no_rollback leaves the
   VM state, the bootloader state and the snapshot stack as they were before
   make_snapshot. *)
C5_CheckpointIdempotence ==
    [][(trail = "checkpointed" /\ trail' = "discarded") => BackAtLatestCheckpoint]_vars

(* A checkpoint was taken and discarded at once, in an engine with queued
   transactions, one of them run, and an older checkpoint on the stack. *)
C5_Witness ==
    /\ trail = "discarded"
    /\ bootloader_state.tx_to_execute > 0
    /\ snapshots # <<>>

(***************************************************************************)
(* Transactions inspected with bytecode compression.                       *)
(***************************************************************************)
InspectedTx(o) == o.name = "inspect_transaction_with_bytecode_compression"

Failed(o) == InspectedTx(o) /\ o.result = "BytecodeCompressionFailed"

KnownBytecodes == {w.bytecode : w \in state.storage}

(* Some compressed bytecode of the transaction pushed last is not known to
   storage. *)
UnpublishedRemain ==
    /\ bootloader_state.txs # <<>>
    /\ ~(bootloader_state.txs[Len(bootloader_state.txs)].compressed_bytecodes
            \subseteq KnownBytecodes)

(* C6. inspect_transaction_with_bytecode_compression pushes the transaction
   and runs one OneTx execution; it returns BytecodeCompressionFailed if and
   only if unpublished bytecodes remain after that execution, and the
   execution result otherwise; on either outcome the pushed transaction is
   in the queue and the execution has been applied (one more transaction
   run, more cycles used), so a failure does not restore the pre-call state. *)
C6_FailureKeepsEffects ==
    [][InspectedTx(op') =>
        /\ op'.result \in {"Ok", "BytecodeCompressionFailed"}
        /\ op'.result = "BytecodeCompressionFailed" <=> UnpublishedRemain'
        /\ Len(bootloader_state'.txs) = Len(bootloader_state.txs) + 1
        /\ SubSeq(bootloader_state'.txs, 1, Len(bootloader_state.txs)) = bootloader_state.txs
        /\ bootloader_state'.tx_to_execute = bootloader_state.tx_to_execute + 1
        /\ state'.local_state.monotonic_cycle_counter
              > state.local_state.monotonic_cycle_counter
        /\ Len(state'.event_sink) = Len(state.event_sink) + 1
        /\ changed']_vars

(* The call has returned the compression failure, with the transaction
   queued and run. *)
C6_Witness ==
    /\ Failed(op) /\ changed
    /\ bootloader_state.tx_to_execute = Len(bootloader_state.txs)

(* C7. BytecodeCompressionFailed comes back only from a call that asked for
   compression and left unpublished bytecode behind; a call with
   with_compression = FALSE never returns it. *)
C7_FailureOnlyWithCompression ==
    Failed(op) => (op.with_compression /\ UnpublishedRemain)

(* A call without compression has returned normally for a transaction that
   has a factory dependency unknown to storage. *)
C7_Witness ==
    /\ InspectedTx(op) /\ ~op.with_compression /\ op.result = "Ok"
    /\ \E b \in bootloader_state.txs[Len(bootloader_state.txs)].tx.factory_deps :
          b \notin KnownBytecodes

(* C8. Caller-managed atomicity: make_snapshot in a state s, then a
   transaction inspection that returns BytecodeCompressionFailed, then
   rollback_to_the_latest_snapshot: the engine is back in s (VM state,
   bootloader state with the transaction no longer queued, snapshot stack),
   and before the rollback it was not. *)
C8_RollbackAfterFailure ==
    [][(trail = "failed" /\ trail' = "reverted") =>
        /\ BackAtLatestCheckpoint
        /\ Len(bootloader_state'.txs) = Len(bootloader_state.txs) - 1
        /\ state # state'
        /\ bootloader_state # bootloader_state']_vars

(* The three calls have been made in that order on an engine that already
   had a transaction queued. *)
C8_Witness == trail = "reverted" /\ bootloader_state.txs # <<>>

(***************************************************************************)
(* Order of execution and finalization.                                    *)
(***************************************************************************)
Queue == bootloader_state.txs

Executed == bootloader_state.tx_to_execute

(* The positions of the queue that the step processes. *)
Processes(i) == Executed < i /\ i <= Executed'

(* The transactions processed and not undone are the first Executed entries
   of the queue, in queue order (one raw event each). *)
ProcessedArePrefixOfQueue ==
    /\ Executed <= Len(Queue)
    /\ Len(state.event_sink) = Executed
    /\ \A k \in 1..Executed : state.event_sink[k].tx = Queue[k].tx.id
    /\ Executed <= ran_upto /\ ran_upto <= Len(Queue)

(* A step processes queued transactions in queue order, each one already
   pushed, and leaves what was processed before as it was. *)
RunsNextInPushOrder ==
    \A i \in 1..Len(Queue') :
        Processes(i) =>
            /\ i <= Len(state'.event_sink)
            /\ state'.event_sink[i].tx = Queue'[i].tx.id
            /\ SubSeq(state'.event_sink, 1, Executed) = state.event_sink

(* C9 as stated. Transactions are processed strictly in push order, each
   pushed transaction at most once, and none before it was pushed: no step
   processes a queue position beyond the queue, out of order, or one that
   was processed before. *)
C9_ProcessedOnceInPushOrder ==
    [][Executed' <= Len(Queue')
       /\ RunsNextInPushOrder
       /\ \A i \in 1..Len(Queue') : Processes(i) => i > ran_upto]_vars

(* C9 as amended. Transactions are processed in push order and never before
   they were pushed: the transactions processed and not undone are always
   the first entries of the queue in order, and every run processes the next
   pending entries in order.  A queued transaction is processed at most once
   unless a rollback undoes its processing and keeps it queued: only a
   rollback makes a processed transaction pending again. *)
C9_PushOrder ==
    /\ []ProcessedArePrefixOfQueue
    /\ [][RunsNextInPushOrder]_vars
    /\ [][(ran_upto' - Executed' > ran_upto - Executed) => RolledBack(op')]_vars

(* Two different transactions were pushed and processed in that order, and
   a rollback has then undone the processing of the second and kept it
   queued. *)
C9_Witness ==
    /\ RolledBack(op)
    /\ Len(Queue) = 2 /\ Queue[1].tx # Queue[2].tx
    /\ Executed = 1 /\ ran_upto = 2

FinalizingCalls == {"finish_batch", "inspect"}

(* Once Completed, a further finish_batch or Batch-mode inspect returns and
   changes nothing. *)
CompletedIsFinal ==
    (Completed /\ op'.name \in FinalizingCalls) =>
        /\ op'.result = "Ok"
        /\ state' = state
        /\ bootloader_state' = bootloader_state
        /\ snapshots' = snapshots

(* The step runs the batch-closing sequence. *)
Closes == ~Completed /\ Completed'

(* finish_batch has completed the batch and the batch is open again. *)
Reopened == finished /\ ~Completed

(* C10 as stated. Finalization is one-shot: finish_batch runs the batch to
   completion at most once in the life of an engine, and once Completed a
   further finish_batch (or Batch-mode inspect) changes nothing. *)
C10_OneShotFinalization ==
    [][((Closes /\ op'.name = "finish_batch") => ~finished) /\ CompletedIsFinal]_vars

(* C10 as amended. Once Completed, a further finish_batch or Batch-mode
   inspect returns without running the batch-closing sequence again and
   without changing the engine; Completed is left only by a rollback to a
   checkpoint taken before completion, and only after such a rollback does
   the batch-closing sequence run again. *)
C10_FinalUntilRolledBack ==
    /\ [][CompletedIsFinal]_vars
    /\ [][(Completed /\ ~Completed') => RolledBack(op')]_vars
    /\ [][(Reopened' /\ ~Reopened) => RolledBack(op')]_vars

(* finish_batch has completed a batch with a transaction in it, and a
   rollback has then reopened the batch with that transaction pending. *)
C10_Witness ==
    /\ Reopened /\ RolledBack(op)
    /\ Executed < Len(Queue)

(***************************************************************************)
(* Finalization and introspection.                                         *)
(***************************************************************************)
FinishedBatch(o) == o.name = "finish_batch" /\ o.result = "Ok"

(* C11. finish_batch first runs the Batch mode to completion, then extracts
   the CurrentExecutionState, then captures the bootloader memory, then
   builds the pubdata with is_final = FALSE: the final execution state, the
   final bootloader memory and the pubdata it returns are those of the
   engine after the Batch run, and the block-tip result is the result of
   that run. *)
C11_FinishBatchOrder ==
    [][op'.name = "finish_batch" =>
        /\ op'.result = "Ok"
        /\ Completed'
        /\ ret'.block_tip_execution_result = execution_result(Vm, Vm')
        /\ ret'.final_execution_state.events = merge_events(flatten(state'.event_sink))
        /\ ret'.final_execution_state.cycles_used
              = state'.local_state.monotonic_cycle_counter
        /\ ret'.final_execution_state.storage_log_queries
              = get_final_log_queries(state'.storage)
        /\ ret'.final_bootloader_memory = bootloader_memory(bootloader_state')
        /\ ret'.pubdata_input.published_bytecodes = {w.bytecode : w \in state'.storage}
        /\ ret'.pubdata_input.is_final = FALSE]_vars

(* finish_batch has returned after a run that processed a queued
   transaction, published its bytecode and closed the batch. *)
C11_Witness ==
    /\ FinishedBatch(op)
    /\ ret.block_tip_execution_result.cycles_used > 1
    /\ ret.final_execution_state.events # <<>>
    /\ ret.pubdata_input.published_bytecodes # {}

(* C12 as stated. The final_bootloader_memory of finish_batch is the value
   get_bootloader_memory returned right before the call, in whatever state
   finish_batch is called. *)
C12_FinalMemoryAsBefore ==
    (FinishedBatch(op) /\ memory_before # NoValue) =>
        ret.final_bootloader_memory = memory_before

(* The Batch run of the last finish_batch did more than the closing
   sequence: it processed queued transactions. *)
RanTransactions == ret.block_tip_execution_result.logs # <<>>

(* C12 as amended. The final_bootloader_memory of finish_batch is the image
   of the bootloader state after the Batch run; it is the value
   get_bootloader_memory returned right before the call whenever no queued
   transaction was pending at the call. *)
C12_FinalMemoryAfterRun ==
    /\ [][op'.name = "finish_batch" =>
            ret'.final_bootloader_memory = get_bootloader_memory(Vm').value]_vars
    /\ [](FinishedBatch(op) /\ memory_before # NoValue /\ ~RanTransactions
            => ret.final_bootloader_memory = memory_before)

(* finish_batch was called right after get_bootloader_memory with every
   queued transaction processed, and has returned that same image. *)
C12_Witness ==
    /\ FinishedBatch(op) /\ memory_before # NoValue /\ ~RanTransactions
    /\ ret.final_bootloader_memory = memory_before
    /\ bootloader_state.txs # <<>>
    /\ ret.block_tip_execution_result.cycles_used = 1

Getters ==
    { "get_bootloader_memory", "get_last_tx_compressed_bytecodes",
      "record_vm_memory_metrics", "get_current_execution_state" }

(* C14. get_bootloader_memory, get_last_tx_compressed_bytecodes,
   record_vm_memory_metrics and get_current_execution_state leave the VM
   state, the bootloader state and the snapshot stack as they are, and one
   of them called twice in a row returns the same value both times. *)
C14_GettersReadOnly ==
    /\ [][op'.name \in Getters =>
            /\ op'.result = "Ok"
            /\ state' = state
            /\ bootloader_state' = bootloader_state
            /\ snapshots' = snapshots]_vars
    /\ [][(op.name \in Getters /\ op'.name = op.name) => ret' = ret]_vars

(* get_last_tx_compressed_bytecodes has returned the artifacts of the
   transaction pushed last, which are still in the bootloader state. *)
C14_Witness ==
    /\ op.name = "get_last_tx_compressed_bytecodes"
    /\ ret # {}
    /\ bootloader_state.txs # <<>>
    /\ ret = bootloader_state.txs[Len(bootloader_state.txs)].compressed_bytecodes

(* C17. total_log_queries of the extracted CurrentExecutionState is the sum
   of the event sink's log queries, the length of the precompile
   processor's timestamp history and the number of final storage log
   queries, and that last term is the length of the storage_log_queries
   field of the same CurrentExecutionState. *)
C17_TotalLogQueries ==
    op.name = "get_current_execution_state" =>
        /\ ret.total_log_queries =
              Len(state.event_sink)
              + Len(state.precompiles_processor.timestamp_history)
              + Cardinality(state.storage)
        /\ Len(ret.storage_log_queries) = Cardinality(state.storage)
        /\ {ret.storage_log_queries[i] : i \in 1..Len(ret.storage_log_queries)}
              = state.storage

(* An execution state has been extracted in which each of the three terms
   counts something. *)
C17_Witness ==
    /\ op.name = "get_current_execution_state"
    /\ state.event_sink # <<>>
    /\ state.precompiles_processor.timestamp_history # <<>>
    /\ ret.storage_log_queries # <<>>
    /\ ret.total_log_queries > Len(ret.storage_log_queries) + Len(state.event_sink)

StackCalls ==
    {"make_snapshot", "rollback_to_the_latest_snapshot", "pop_snapshot_no_rollback"}

(* C19. The snapshot stack is empty after construction; its depth is always
   the number of make_snapshot calls minus the number of rollback and
   discard calls that returned (Len(ckpts)); make_snapshot raises the depth
   by exactly one, a returning rollback or discard lowers it by exactly one,
   and no other call changes the stack. *)
C19_StackAccounting ==
    /\ snapshots = <<>>
    /\ [](Len(snapshots) = Len(ckpts))
    /\ [][op'.name = "make_snapshot" => Len(snapshots') = Len(snapshots) + 1]_vars
    /\ [][(RolledBack(op') \/ Discarded(op')) =>
            Len(snapshots') = Len(snapshots) - 1]_vars
    /\ [][(op'.name \notin StackCalls \/ op'.result = "panic") =>
            snapshots' = snapshots]_vars

(* finish_batch has run queued transactions and closed the batch with a
   checkpoint unresolved, and the stack still holds it. *)
C19_Witness ==
    /\ FinishedBatch(op)
    /\ ret.block_tip_execution_result.cycles_used > 1
    /\ Len(snapshots) = 1 /\ Len(ckpts) = 1

(* C13. Batch completion terminates and drains the queue: a finish_batch
   call, whatever is queued when it begins, reaches Completed and returns;
   while it runs the queue is as it was at the call and only grows in what
   has been processed; and whenever the engine is Completed every queued
   transaction has been processed (one raw event each) and the closing
   sequence has run. *)
C13_BatchTerminatesAndDrains ==
    /\ (pc = "finish_batch") ~>
          (pc = "idle" /\ FinishedBatch(op) /\ Completed /\ ~has_pending_tx(Vm))
    /\ [][pc = "finish_batch" =>
            /\ bootloader_state'.txs = bootloader_state.txs
            /\ bootloader_state'.tx_to_execute >= bootloader_state.tx_to_execute
            /\ pc' = "idle" => Completed']_vars
    /\ [](Completed =>
            /\ bootloader_state.tx_to_execute = Len(bootloader_state.txs)
            /\ Len(state.event_sink) = Len(bootloader_state.txs))

(* A finish_batch that began right after a second transaction was pushed
   has processed the queue to its end and run the closing sequence. *)
C13_Witness ==
    /\ pc = "finish_batch" /\ Completed
    /\ op.name = "push_transaction"
    /\ Len(bootloader_state.txs) = 2
    /\ bootloader_state.tx_to_execute = 2

(***************************************************************************)
(* C15.  Event merge.  The events field of the extraction is the merge of  *)
(* the raw stream.  As stated: it holds exactly one entry per unique key   *)
(* of the raw stream, each with the last value of a run of its key, in     *)
(* the order in which the keys first occur, and it is never longer than    *)
(* the raw stream.                                                         *)
(***************************************************************************)
Extracted == ret # NoValue

RawEvents == flatten(raw_stream)

KeysOf(events) == {events[i].key : i \in 1..Len(events)}

FirstOccurrence(events, k) ==
    CHOOSE i \in 1..Len(events) :
        /\ events[i].key = k
        /\ \A j \in 1..(i - 1) : events[j].key # k

(* The positions of the raw stream at which a contiguous run of one key
   ends. *)
RunEnds(events) ==
    {i \in 1..Len(events) : i = Len(events) \/ events[i + 1].key # events[i].key}

(* The position at which the n-th run ends. *)
NthRunEnd(events, n) ==
    CHOOSE i \in RunEnds(events) :
        Cardinality({j \in RunEnds(events) : j <= i}) = n

OnePerUniqueKey(merged, raw) ==
    /\ KeysOf(merged) = KeysOf(raw)
    /\ Len(merged) = Cardinality(KeysOf(raw))
    /\ \A i, j \in 1..Len(merged) :
          i < j => FirstOccurrence(raw, merged[i].key) < FirstOccurrence(raw, merged[j].key)

C15_OneEntryPerUniqueKey ==
    Extracted =>
        /\ OnePerUniqueKey(ret.events, RawEvents)
        /\ \A i \in 1..Len(ret.events) :
              \E e \in RunEnds(RawEvents) : RawEvents[e] = ret.events[i]
        /\ Len(ret.events) <= Len(RawEvents)

(* C15 amended.  The events field holds exactly one entry per contiguous   *)
(* run of the raw stream, the last entry of that run, in the order of the  *)
(* runs; it is never longer than the raw stream; and when the entries of   *)
(* every key are contiguous it holds exactly one entry per unique key in   *)
(* first-occurrence order.                                                 *)
C15_OneEntryPerRun ==
    Extracted =>
        /\ Len(ret.events) = Cardinality(RunEnds(RawEvents))
        /\ \A n \in 1..Len(ret.events) :
              ret.events[n] = RawEvents[NthRunEnd(RawEvents, n)]
        /\ Len(ret.events) <= Len(RawEvents)
        /\ Cardinality(RunEnds(RawEvents)) = Cardinality(KeysOf(RawEvents))
              => OnePerUniqueKey(ret.events, RawEvents)

(* A run of two entries with different values was collapsed, and an entry
   of another key follows it. *)
C15_Witness ==
    /\ Extracted
    /\ Len(raw_stream) = 3
    /\ raw_stream[1].tx = raw_stream[2].tx
    /\ raw_stream[1].timestamp # raw_stream[2].timestamp
    /\ raw_stream[3].tx # raw_stream[2].tx
    /\ Len(ret.events) = 2

(***************************************************************************)
(* C16.  Monotonic cycle counter.  As stated: whatever calls lie between   *)
(* two inspect calls (pushes, checkpoints, rollbacks, discards), the       *)
(* cycles used as an inspect call leaves them are never below the cycles   *)
(* used as the inspect call before it left them.                           *)
(***************************************************************************)
C16_CyclesNeverDecrease ==
    [][op'.name \in InspectCalls => CyclesUsed' >= reported]_vars

(* C16 amended.  No call but a rollback lowers the cycles used: an inspect *)
(* call, a push, a block start, a checkpoint, a discard and finish_batch   *)
(* leave them as they were or raise them, so between inspect calls with no *)
(* rollback in between the reported value never decreases.  A rollback     *)
(* puts the cycles used back to the value captured at the checkpoint.      *)
C16_CyclesLoweredOnlyByRollback ==
    /\ [][op'.name # "rollback_to_the_latest_snapshot" => CyclesUsed' >= CyclesUsed]_vars
    /\ [][op'.name \in InspectCalls /\ op.name # "rollback_to_the_latest_snapshot"
            /\ CyclesUsed >= reported
          => CyclesUsed' >= reported]_vars
    /\ [][RolledBack(op') /\ alive /\ snapshots # <<>>
          => CyclesUsed' = Last(snapshots).local_state.monotonic_cycle_counter]_vars

(* A rollback has put the cycles used below what the last inspect call
   reported. *)
C16_Witness ==
    /\ RolledBack(op)
    /\ reported = 2
    /\ CyclesUsed < reported

(***************************************************************************)
(* C18.  Push-order determinism.  A second engine, freshly constructed     *)
(* with the same environments and storage and given the same calls in the  *)
(* same order, is in the state of the first after every call, and the      *)
(* CurrentExecutionState extracted from it is the one extracted from the   *)
(* first.                                                                  *)
(***************************************************************************)
C18_ReplayDeterminism ==
    /\ Replay(log) = Vm
    /\ Completed =>
          get_current_execution_state(Replay(log)).value
              = get_current_execution_state(Vm).value

(* Three calls have been replayed: a push, a block start and a batch run
   that processed the transaction. *)
C18_Witness ==
    /\ Len(log) = 3
    /\ log[1].name = "push_transaction"
    /\ log[2].name = "start_new_l2_block"
    /\ log[3].name = "finish_batch"
    /\ Completed
    /\ get_current_execution_state(Replay(log)).value.cycles_used = 2

====
